---- MODULE Spec2Model ----
(***************************************************************************)
(* A model of the CgBI PNG decoder (package ipaPng).                       *)
(*                                                                         *)
(* Bytes are the integers 0..255.  A uint32 is a pair <<hi, lo>> of 16-bit *)
(* halves, so that every 32-bit value (CRCs included) stays inside the     *)
(* integer range of the model checker.  A chunk type is the sequence of    *)
(* its four tag bytes; the empty string is the empty sequence.             *)
(***************************************************************************)
EXTENDS Integers, Sequences, FiniteSets, TLC

VARIABLES
  input,  \* the bytes behind the bytes.Reader handed to Decode
  cgbi,   \* the IpaPNG struct, with `off` the read cursor of cgbi.r
  pc,     \* the position of the running Decode call
  loc,    \* the local variables of Decode and parseChunk
  rd,     \* the local variables of decode / readImagePass / mergePassInto
  ret,    \* the error a returned call gave back
  ext     \* the calls made to the external collaborators, in order

vars == <<input, cgbi, pc, loc, rd, ret, ext>>

(***************************************************************************)
(* Bounds of the model.                                                    *)
(***************************************************************************)
\* most chunks in a byte-level input of the chunk sequencer
MaxFrames == 3
\* most payload bytes of a chunk in a byte-level input
MaxData == 1
\* most chunks in a chunk list handed to parseChunk
MaxChunks == 5
\* largest width and height of an image whose rows take every filter type
MaxSide == 2
\* largest width and height of an interlaced image
MaxDim == 9
\* longest row for which the parse steps consider a full inflated stream
MaxRowBytes == 16

(***************************************************************************)
(* Bytes, words and errors.                                                *)
(***************************************************************************)
Byte == 0..255

Err(kind) == [kind |-> kind, arg |-> <<>>]

ErrArg(kind, arg) == [kind |-> kind, arg |-> arg]

NoErr == Err("nil")

\* the exclusive or of a and b at the bit of weight k
XorBit(a, b, k) == (((a \div k) + (b \div k)) % 2) * k

\* ^ on uint8, a function of the pair of bytes
XorByte ==
  [ab \in Byte \X Byte |->
     XorBit(ab[1], ab[2], 1) + XorBit(ab[1], ab[2], 2) + XorBit(ab[1], ab[2], 4)
     + XorBit(ab[1], ab[2], 8) + XorBit(ab[1], ab[2], 16) + XorBit(ab[1], ab[2], 32)
     + XorBit(ab[1], ab[2], 64) + XorBit(ab[1], ab[2], 128)]

\* ^ on the 16-bit halves
XorHalf ==
  [ab \in (0..65535) \X (0..65535) |->
     XorByte[ab[1] \div 256, ab[2] \div 256] * 256 + XorByte[ab[1] % 256, ab[2] % 256]]

Word == (0..65535) \X (0..65535)

\* ^ on uint32, a function of the pair of words
XorWord ==
  [vw \in Word \X Word |->
     <<XorHalf[vw[1][1], vw[2][1]], XorHalf[vw[1][2], vw[2][2]]>>]

\* >> 1 and >> 8 of a uint32
Shr1(w) == <<w[1] \div 2, (w[2] \div 2) + 32768 * (w[1] % 2)>>

Shr8(w) == <<w[1] \div 256, (w[2] \div 256) + 256 * (w[1] % 256)>>

\* the low byte of a uint32: byte(crc)
LowByte(w) == w[2] % 256

\* binary.BigEndian.Uint32
BigEndianUint32(b) == <<b[1] * 256 + b[2], b[3] * 256 + b[4]>>

\* int(u) of a uint32 below 2^31 (the inputs of the model stay below it)
WordToInt(w) == w[1] * 65536 + w[2]

SubSeqFrom(s, from) == SubSeq(s, from, Len(s))

\* a []byte value: the bytes of f, held as a sequence
Bytes(f) == <<>> \o f

Zeros(n) == Bytes([i \in 1..n |-> 0])

(***************************************************************************)
(* hash/crc32 with the IEEE polynomial, as c.crc (crc32.NewIEEE()) runs    *)
(* it: a 256-entry table, one lookup per byte.                             *)
(***************************************************************************)
IEEEPoly == <<60856, 33568>>   \* 0xedb88320

RECURSIVE TableEntry(_, _)
TableEntry(crc, k) ==
  IF k = 0 THEN crc
  ELSE IF crc[2] % 2 = 1 THEN TableEntry(XorWord[Shr1(crc), IEEEPoly], k - 1)
  ELSE TableEntry(Shr1(crc), k - 1)

\* entry i of the table is IEEETable[i + 1]
IEEETable == Bytes([i \in 1..256 |-> TableEntry(<<0, i - 1>>, 8)])

AllOnes == <<65535, 65535>>

\* crc = tab[byte(crc)^v] ^ (crc >> 8), for one byte v
CrcByte(crc, v) == XorWord[IEEETable[XorByte[LowByte(crc), v] + 1], Shr8(crc)]

\* the running value cp[1] after the bytes cp[2], a function of the pair
CrcUpdate[cp \in Word \X Seq(Byte)] ==
  IF cp[2] = <<>> THEN cp[1] ELSE CrcUpdate[<<CrcByte(cp[1], Head(cp[2])), Tail(cp[2])>>]

\* crc.Reset(); crc.Write(p); crc.Sum32()
Sum32(p) == XorWord[CrcUpdate[<<AllOnes, p>>], AllOnes]

(***************************************************************************)
(* io.ReadFull on a reader over `data` with its cursor at `off`.           *)
(***************************************************************************)
ReadFull(data, off, n) ==
  LET avail == Len(data) - off IN
  IF n = 0 THEN [err |-> NoErr, buf |-> <<>>, off |-> off]
  ELSE IF avail <= 0 THEN [err |-> Err("EOF"), buf |-> <<>>, off |-> off]
  ELSE IF avail < n
    THEN [err |-> Err("unexpected EOF"), buf |-> SubSeq(data, off + 1, Len(data)),
          off |-> Len(data)]
  ELSE [err |-> NoErr, buf |-> SubSeq(data, off + 1, off + n), off |-> off + n]

(***************************************************************************)
(* Chunk type tags and the decoding stages.                                *)
(***************************************************************************)
dsStart == <<>>

dsSeenCgBI == <<67, 103, 66, 73>>

dsSeenIHDR == <<73, 72, 68, 82>>

dsSeenIDAT == <<73, 68, 65, 84>>

dsSeenIEND == <<73, 69, 78, 68>>

\* an ancillary chunk type the decoder does not parse ("tEXt")
tEXt == <<116, 69, 88, 116>>

pngHeader == <<137, 80, 78, 71, 13, 10, 26, 10>>

ZeroChunk == [Length |-> <<0, 0>>, CType |-> <<>>, Data |-> <<>>, Crc32 |-> <<0, 0>>]

(***************************************************************************)
(* Chunk.Populate: the chunk read from `data` at cursor `off`.             *)
(***************************************************************************)
ChecksumOverDataOnly(ctype, data) == Sum32(data)

\* c.crc.Reset(); c.crc.Write(buf); c.crc.Write(c.Data); c.crc.Sum32()
ChunkChecksum(ctype, data) == Sum32(ctype \o data)

Populate(data, off) ==
  LET r1 == ReadFull(data, off, 4)
      c1 == [ZeroChunk EXCEPT !.Length = BigEndianUint32(r1.buf)]
      r2 == ReadFull(data, r1.off, 4)
      c2 == [c1 EXCEPT !.CType = r2.buf]
      r3 == ReadFull(data, r2.off, WordToInt(c1.Length))
      c3 == [c2 EXCEPT !.Data = r3.buf]
      r4 == ReadFull(data, r3.off, 4)
      c4 == [c3 EXCEPT !.Crc32 = BigEndianUint32(r4.buf)]
  IN
  IF r1.err # NoErr THEN [err |-> r1.err, c |-> ZeroChunk, off |-> r1.off]
  ELSE IF r2.err # NoErr THEN [err |-> r2.err, c |-> c1, off |-> r2.off]
  ELSE IF r3.err # NoErr THEN [err |-> r3.err, c |-> c2, off |-> r3.off]
  ELSE IF r4.err # NoErr THEN [err |-> r4.err, c |-> c3, off |-> r4.off]
  ELSE IF c4.Crc32 # ChunkChecksum(c4.CType, c4.Data)
    THEN [err |-> ErrArg("invalid checksum CType", c4.CType), c |-> c4, off |-> r4.off]
  ELSE [err |-> NoErr, c |-> c4, off |-> r4.off]

(***************************************************************************)
(* Constants of the PNG format, as the package declares them.             *)
(***************************************************************************)
iHDRLength == 13

ctGrayscale == 0

ctTrueColor == 2

ctPaletted == 3

ctGrayscaleAlpha == 4

ctTrueColorAlpha == 6

ftNone == 0

ftSub == 1

ftUp == 2

ftAverage == 3

ftPaeth == 4

nFilter == 5

itNone == 0

itAdam7 == 1

interlacing ==
  << [xFactor |-> 8, yFactor |-> 8, xOffset |-> 0, yOffset |-> 0],
     [xFactor |-> 8, yFactor |-> 8, xOffset |-> 4, yOffset |-> 0],
     [xFactor |-> 4, yFactor |-> 8, xOffset |-> 0, yOffset |-> 4],
     [xFactor |-> 4, yFactor |-> 4, xOffset |-> 2, yOffset |-> 0],
     [xFactor |-> 2, yFactor |-> 4, xOffset |-> 0, yOffset |-> 2],
     [xFactor |-> 2, yFactor |-> 2, xOffset |-> 1, yOffset |-> 0],
     [xFactor |-> 1, yFactor |-> 2, xOffset |-> 0, yOffset |-> 1] >>

\* the number of Adam7 passes: len(interlacing)
nPasses == Len(interlacing)

\* integer division of Go: truncated towards zero
GoDiv(a, b) == IF a >= 0 THEN a \div b ELSE -((-a) \div b)

(***************************************************************************)
(* Images.  NRGBA holds 4 bytes a pixel, NRGBA64 8; Rect is (0,0)-(W,H).   *)
(***************************************************************************)
NilImage == [kind |-> "nil", Pix |-> <<>>, Stride |-> 0, W |-> 0, H |-> 0]

\* image.NewNRGBA64 for depth 16, image.NewNRGBA otherwise
NewImage(depth, w, h) ==
  IF depth = 16
    THEN [kind |-> "NRGBA64", Pix |-> Zeros(8 * w * h), Stride |-> 8 * w, W |-> w, H |-> h]
    ELSE [kind |-> "NRGBA", Pix |-> Zeros(4 * w * h), Stride |-> 4 * w, W |-> w, H |-> h]

\* p.Pix[i+k] = px[k+1] for the bytes of px, i counted from 0
PutBytes(pix, i, px) ==
  Bytes([k \in 1..Len(pix) |-> IF k > i /\ k <= i + Len(px) THEN px[k - i] ELSE pix[k]])

(***************************************************************************)
(* The pass geometry of readImagePass.                                     *)
(***************************************************************************)
PassWidthFloor(width, pass) ==
  GoDiv(width - interlacing[pass + 1].xOffset, interlacing[pass + 1].xFactor)

PassWidth(width, pass) ==
  GoDiv(width - interlacing[pass + 1].xOffset + interlacing[pass + 1].xFactor - 1,
        interlacing[pass + 1].xFactor)

PassHeight(height, pass) ==
  GoDiv(height - interlacing[pass + 1].yOffset + interlacing[pass + 1].yFactor - 1,
        interlacing[pass + 1].yFactor)

BytesPerPixel(bitsPerPixel) == GoDiv(bitsPerPixel + 7, 8)

RowSize(bitsPerPixel, width) == 1 + GoDiv(bitsPerPixel * width + 7, 8)

(***************************************************************************)
(* Filter reversal.  cDat and pDat are cr[1:] and pr[1:]; index i of the   *)
(* code is index i+1 here.  All sums are uint8 sums.  A byte depends on    *)
(* the byte bpp places before it, so the operators below rebuild the row   *)
(* one pixel (bpp bytes) at a time, from the bytes `out` already rebuilt.  *)
(***************************************************************************)
\* the indices of the next pixel after the n bytes done, of a row of len bytes
NextPixel(n, len, bpp) == (n + 1)..(IF n + bpp < len THEN n + bpp ELSE len)

RECURSIVE SubFrom(_, _, _)
SubFrom(out, cDat, bpp) ==
  IF Len(out) >= Len(cDat) THEN out
  ELSE SubFrom(out \o [j \in 1..Cardinality(NextPixel(Len(out), Len(cDat), bpp)) |->
                         LET i == Len(out) + j
                         IN IF i <= bpp THEN cDat[i] ELSE (cDat[i] + out[i - bpp]) % 256],
               cDat, bpp)

FilterSub(cDat, bpp) == SubFrom(<<>>, cDat, bpp)

FilterUp(cDat, pDat) == Bytes([i \in 1..Len(cDat) |-> (cDat[i] + pDat[i]) % 256])

RECURSIVE AverageFrom(_, _, _, _)
AverageFrom(out, cDat, pDat, bpp) ==
  IF Len(out) >= Len(cDat) THEN out
  ELSE AverageFrom(
         out \o [j \in 1..Cardinality(NextPixel(Len(out), Len(cDat), bpp)) |->
                   LET i == Len(out) + j
                   IN IF i <= bpp THEN (cDat[i] + (pDat[i] \div 2)) % 256
                      ELSE (cDat[i] + ((out[i - bpp] + pDat[i]) \div 2)) % 256],
         cDat, pDat, bpp)

FilterAverage(cDat, pDat, bpp) == AverageFrom(<<>>, cDat, pDat, bpp)

Abs(n) == IF n < 0 THEN -n ELSE n

\* the nearest of left a, up b, up-left c to a + b - c; ties: a, then b, then c
paethPredictor(a, b, c) ==
  LET pa == Abs(b - c)
      pb == Abs(a - c)
      pcc == Abs((b - c) + (a - c))
  IN IF pa <= pb /\ pa <= pcc THEN a ELSE IF pb <= pcc THEN b ELSE c

RECURSIVE PaethFrom(_, _, _, _)
PaethFrom(out, cDat, pDat, bpp) ==
  IF Len(out) >= Len(cDat) THEN out
  ELSE PaethFrom(
         out \o [j \in 1..Cardinality(NextPixel(Len(out), Len(cDat), bpp)) |->
                   LET i == Len(out) + j
                   IN (cDat[i] + paethPredictor(IF i <= bpp THEN 0 ELSE out[i - bpp],
                                                pDat[i],
                                                IF i <= bpp THEN 0 ELSE pDat[i - bpp]))
                      % 256],
         cDat, pDat, bpp)

filterPaeth(cDat, pDat, bpp) == PaethFrom(<<>>, cDat, pDat, bpp)

\* the switch on cr[0]: the reconstructed row, or "bad" for an unknown type
Unfilter(ft, cDat, pDat, bpp) ==
  IF ft = ftNone THEN [ok |-> TRUE, cDat |-> cDat]
  ELSE IF ft = ftSub THEN [ok |-> TRUE, cDat |-> FilterSub(cDat, bpp)]
  ELSE IF ft = ftUp THEN [ok |-> TRUE, cDat |-> FilterUp(cDat, pDat)]
  ELSE IF ft = ftAverage THEN [ok |-> TRUE, cDat |-> FilterAverage(cDat, pDat, bpp)]
  ELSE IF ft = ftPaeth THEN [ok |-> TRUE, cDat |-> filterPaeth(cDat, pDat, bpp)]
  ELSE [ok |-> FALSE, cDat |-> cDat]

(***************************************************************************)
(* Bytes to colours, one branch for each bit depth.  Each operator gives   *)
(* [panic, cDat, img, pixOffset]: panic says that an index of the branch   *)
(* was out of range (the run time stops the program); cDat is the row      *)
(* buffer as the branch leaves it.                                         *)
(***************************************************************************)
Pow2(n) == 2 ^ n

\* (b << (depth*x2)) >> (8-depth), times 0xff, 0x55 or 0x11
GraySample(b, x2, depth) ==
  (((b * Pow2(depth * x2)) % 256) \div Pow2(8 - depth)) * (255 \div (Pow2(depth) - 1))

\* SetNRGBA(x, y, {yCol, yCol, yCol, 0xff}) for every x < width, depth 1, 2 or 4;
\* SetNRGBA writes nothing outside the rectangle of the image
GrayRow(img, cDat, width, y, depth) ==
  IF y < 0 \/ y >= img.H THEN img
  ELSE [img EXCEPT !.Pix =
          Bytes([k \in 1..Len(img.Pix) |->
                   LET o == k - 1 - y * img.Stride
                       x == o \div 4
                       per == 8 \div depth
                   IN IF o >= 0 /\ x < width /\ x < img.W
                        THEN IF o % 4 = 3 THEN 255
                             ELSE GraySample(cDat[(x \div per) + 1], x % per, depth)
                        ELSE img.Pix[k]])]

ConvertGray(cDat, width, y, depth, img, pixOffset) ==
  IF \E x \in 0..(width - 1) : (x \div (8 \div depth)) >= Len(cDat)
    THEN [panic |-> TRUE, cDat |-> cDat, img |-> img, pixOffset |-> pixOffset]
    ELSE [panic |-> FALSE, cDat |-> cDat,
          img |-> GrayRow(img, cDat, width, y, depth), pixOffset |-> pixOffset]

\* a faulty SwapBR that leaves the bytes in stream order
SwapNone(cDat, width) == cDat

\* for x := 0; x < width*4; x += 4 { cDat[x], cDat[x+2] = cDat[x+2], cDat[x] }
SwapBR(cDat, width) ==
  Bytes([k \in 1..Len(cDat) |->
           IF k - 1 < 4 * width /\ (k - 1) % 4 = 0 /\ k + 2 <= Len(cDat) THEN cDat[k + 2]
           ELSE IF k - 3 < 4 * width /\ k >= 3 /\ (k - 3) % 4 = 0 THEN cDat[k - 2]
           ELSE cDat[k]])

\* copy(dst[off:], src)
CopyAt(dst, off, src) ==
  LET n == IF Len(dst) - off < Len(src) THEN Len(dst) - off ELSE Len(src)
  IN PutBytes(dst, off, SubSeq(src, 1, n))

Convert8(cDat, width, y, img, pixOffset) ==
  IF (\E x \in 0..(width - 1) : 4 * x + 2 >= Len(cDat)) \/ pixOffset > Len(img.Pix)
    THEN [panic |-> TRUE, cDat |-> cDat, img |-> img, pixOffset |-> pixOffset]
    ELSE LET swapped == SwapBR(cDat, width)
         IN [panic |-> FALSE, cDat |-> swapped,
             img |-> [img EXCEPT !.Pix = CopyAt(img.Pix, pixOffset, swapped)],
             pixOffset |-> pixOffset + img.Stride]

\* the place in the stream pixel b, g, r, a of each byte of the image pixel r, g, b, a
Wide16Order == <<5, 6, 3, 4, 1, 2, 7, 8>>

\* SetNRGBA64(x, y, {rCol, gCol, bCol, aCol}) for x := 0; x < width; x++
Wide16Row(img, cDat, width, y) ==
  IF y < 0 \/ y >= img.H THEN img
  ELSE [img EXCEPT !.Pix =
          Bytes([k \in 1..Len(img.Pix) |->
                   LET o == k - 1 - y * img.Stride
                       x == o \div 8
                   IN IF o >= 0 /\ x < width /\ x < img.W
                        THEN cDat[8 * x + Wide16Order[(o % 8) + 1]]
                        ELSE img.Pix[k]])]

Convert16(cDat, width, y, img, pixOffset) ==
  IF \E x \in 0..(width - 1) : 8 * x + 7 >= Len(cDat)
    THEN [panic |-> TRUE, cDat |-> cDat, img |-> img, pixOffset |-> pixOffset]
    ELSE [panic |-> FALSE, cDat |-> cDat,
          img |-> Wide16Row(img, cDat, width, y), pixOffset |-> pixOffset]

\* switch cgbi.depth
ConvertRow(depth, cDat, width, y, img, pixOffset) ==
  IF depth \in {1, 2, 4} THEN ConvertGray(cDat, width, y, depth, img, pixOffset)
  ELSE IF depth = 8 THEN Convert8(cDat, width, y, img, pixOffset)
  ELSE IF depth = 16 THEN Convert16(cDat, width, y, img, pixOffset)
  ELSE [panic |-> FALSE, cDat |-> cDat, img |-> img, pixOffset |-> pixOffset]

(***************************************************************************)
(* mergePassInto: the pass image src scattered into dst.  The result holds *)
(* the offsets d written, in order, beside the image.                      *)
(***************************************************************************)
PixelBytes(img) ==
  IF img.kind = "NRGBA" THEN 4 ELSE IF img.kind = "NRGBA64" THEN 8 ELSE 0

\* d := dBase + x*p.xFactor*bytesPerPixel, with dBase of row y
DestOffset(dst, pass, x, y) ==
  (y * interlacing[pass + 1].yFactor + interlacing[pass + 1].yOffset) * dst.Stride
    + interlacing[pass + 1].xOffset * PixelBytes(dst)
    + x * interlacing[pass + 1].xFactor * PixelBytes(dst)

\* the inner loop: the pixels of row y of src, the later write winning
MergeRow(acc, dst, src, pass, y) ==
  LET bpp == PixelBytes(dst)
      ds == Bytes([n \in 1..src.W |-> DestOffset(dst, pass, n - 1, y)])
      from(n) == (y * src.W + n - 1) * bpp
  IN IF \E n \in 1..src.W : ds[n] > Len(acc.img.Pix) \/ from(n) + bpp > Len(src.Pix)
       THEN [acc EXCEPT !.panic = TRUE]
       ELSE [panic |-> FALSE,
             img |-> [acc.img EXCEPT !.Pix =
                        Bytes([k \in 1..Len(acc.img.Pix) |->
                                 LET hits == {n \in 1..src.W : ds[n] < k /\ k <= ds[n] + bpp}
                                     n == CHOOSE m \in hits : \A l \in hits : l <= m
                                 IN IF hits = {} THEN acc.img.Pix[k]
                                    ELSE src.Pix[from(n) + k - ds[n]]])],
             writes |-> acc.writes \o ds]

RECURSIVE MergeRows(_, _, _, _, _)
\* the outer loop: the rows y, y+1, ... of src
MergeRows(acc, dst, src, pass, y) ==
  IF acc.panic \/ y >= src.H THEN acc
  ELSE MergeRows(MergeRow(acc, dst, src, pass, y), dst, src, pass, y + 1)

mergePassInto(dst, src, pass) ==
  MergeRows([panic |-> FALSE, img |-> dst, writes |-> <<>>], dst, src, pass, 0)

(***************************************************************************)
(* zlib.NewReader reads the two header bytes of the stream at once.        *)
(***************************************************************************)
ZlibHeaderErr(b) ==
  IF Len(b) < 2 THEN Err("unexpected EOF")
  ELSE IF b[1] % 16 # 8 \/ b[1] \div 16 > 7 \/ (b[1] * 256 + b[2]) % 31 # 0
    THEN Err("zlib: invalid header")
  ELSE IF (b[2] \div 32) % 2 = 1 THEN Err("zlib: invalid dictionary")
  ELSE NoErr

(***************************************************************************)
(* decode and readImagePass, one step at a time.  h is the IpaPNG struct,  *)
(* r the locals:                                                           *)
(*   at        "decode" | "pass" | "row" | "passEnd" | "done" | "error"    *)
(*             | "panic"                                                   *)
(*   zr, zoff  the inflated stream behind the zlib reader and its cursor   *)
(*   img       decode's img; pimg: the image of the running pass           *)
(*   recon     cr[1:] of the row before, as its filter reversal left it    *)
(*   writes    for each call of mergePassInto, its pass and the offsets d  *)
(*             it wrote at, in order                                       *)
(***************************************************************************)
NewReader(z) ==
  [at |-> "decode", zr |-> z, zoff |-> 0, pass |-> 0, img |-> NilImage,
   pimg |-> NilImage, width |-> 0, height |-> 0, y |-> 0, cr |-> <<>>, pr |-> <<>>,
   pixOffset |-> 0, err |-> NoErr, recon |-> <<>>, writes |-> <<>>]

\* decode, up to its first call of readImagePass that reads
StepDecode(h, r) ==
  IF ZlibHeaderErr(h.IDAT) # NoErr
    THEN [r EXCEPT !.at = "error", !.err = ZlibHeaderErr(h.IDAT)]
  ELSE IF h.interlace = itNone THEN [r EXCEPT !.at = "pass", !.pass = 0]
  ELSE IF h.interlace = itAdam7
    THEN [r EXCEPT !.at = "pass", !.pass = 0,
                   !.img = NewImage(h.depth, h.width, h.height)]
  ELSE [r EXCEPT !.at = "done"]

\* the pass after r.pass, or the end of decode
AdvancePass(r) ==
  IF r.pass + 1 < nPasses THEN [r EXCEPT !.at = "pass", !.pass = r.pass + 1]
  ELSE [r EXCEPT !.at = "done"]

\* readImagePass(r, pass, false) up to its row loop
StepPass(h, r) ==
  LET width == IF h.interlace = itAdam7 THEN PassWidth(h.width, r.pass) ELSE h.width
      height == IF h.interlace = itAdam7 THEN PassHeight(h.height, r.pass) ELSE h.height
      rowSize == RowSize(h.bitsPerPixel, width)
  IN
  IF h.interlace = itAdam7 /\ (width = 0 \/ height = 0) THEN AdvancePass(r)
  ELSE [r EXCEPT !.at = IF height > 0 THEN "row" ELSE "passEnd",
                 !.width = width, !.height = height,
                 !.pimg = NewImage(h.depth, width, height),
                 !.y = 0, !.pixOffset = 0,
                 !.cr = Zeros(rowSize), !.pr = Zeros(rowSize), !.recon = <<>>]

\* one turn of the row loop of readImagePass
StepRow(h, r) ==
  LET rf == ReadFull(r.zr.data, r.zoff, Len(r.cr))
      pDat == SubSeqFrom(r.pr, 2)
      un == Unfilter(rf.buf[1], SubSeqFrom(rf.buf, 2), pDat, BytesPerPixel(h.bitsPerPixel))
      cv == ConvertRow(h.depth, un.cDat, r.width, r.y, r.pimg, r.pixOffset)
  IN
  IF rf.err # NoErr
    THEN [r EXCEPT !.at = "error", !.zoff = rf.off,
                   !.err = IF r.zr.bad THEN Err("zlib: corrupt input")
                           ELSE Err("not enough pixel data")]
  ELSE IF ~un.ok
    THEN [r EXCEPT !.at = "error", !.zoff = rf.off, !.cr = rf.buf,
                   !.err = Err("bad filter type")]
  ELSE IF cv.panic
    THEN [r EXCEPT !.at = "panic", !.zoff = rf.off, !.cr = <<rf.buf[1]>> \o un.cDat,
                   !.recon = un.cDat]
  ELSE [r EXCEPT !.at = IF r.y + 1 < r.height THEN "row" ELSE "passEnd",
                 !.zoff = rf.off, !.y = r.y + 1,
                 !.pimg = cv.img, !.pixOffset = cv.pixOffset,
                 !.pr = <<rf.buf[1]>> \o cv.cDat, !.cr = r.pr,
                 !.recon = un.cDat]

\* readImagePass returns its image; decode keeps it or merges it
StepPassEnd(h, r) ==
  IF h.interlace = itNone THEN [r EXCEPT !.at = "done", !.img = r.pimg]
  ELSE LET m == mergePassInto(r.img, r.pimg, r.pass)
       IN IF m.panic THEN [r EXCEPT !.at = "panic"]
          ELSE AdvancePass([r EXCEPT !.img = m.img, !.writes = Append(r.writes, [pass |-> r.pass, ds |-> m.writes])])

DecodeStep(h, r) ==
  IF r.at = "decode" THEN StepDecode(h, r)
  ELSE IF r.at = "pass" THEN StepPass(h, r)
  ELSE IF r.at = "row" THEN StepRow(h, r)
  ELSE IF r.at = "passEnd" THEN StepPassEnd(h, r)
  ELSE r

RECURSIVE RunDecode(_, _)
\* decode from r to its return (or to the panic that ends the program)
RunDecode(h, r) ==
  IF r.at \in {"done", "error", "panic"} THEN r ELSE RunDecode(h, DecodeStep(h, r))

(***************************************************************************)
(* The IpaPNG struct as Decode builds it, and the header parser.           *)
(***************************************************************************)
\* the zlib header Decode puts in front of the IDAT bytes
zlibHeader == <<120, 156>>

NewIpaPNG ==
  [Img |-> NilImage, off |-> 0, IsCgBI |-> FALSE, width |-> 0, height |-> 0,
   depth |-> 0, bitsPerPixel |-> 0, interlace |-> 0, colorType |-> 0,
   CompressionMethod |-> 0, FilterMethod |-> 0, chunks |-> <<>>, IDAT |-> zlibHeader]

\* a faulty ValidDepths that lets truecolor take the paletted depths
ValidDepthsLoose(colorType) ==
  IF colorType = ctGrayscale THEN {1, 2, 4, 8, 16}
  ELSE IF colorType = ctTrueColor THEN {1, 2, 4, 8}
  ELSE IF colorType = ctPaletted THEN {1, 2, 4, 8}
  ELSE IF colorType = ctGrayscaleAlpha THEN {8, 16}
  ELSE IF colorType = ctTrueColorAlpha THEN {8, 16}
  ELSE {}

\* the depths for which the switch on cgbi.colorType sets cb = cbValid
ValidDepths(colorType) ==
  IF colorType = ctGrayscale THEN {1, 2, 4, 8, 16}
  ELSE IF colorType = ctTrueColor THEN {8, 16}
  ELSE IF colorType = ctPaletted THEN {1, 2, 4, 8}
  ELSE IF colorType = ctGrayscaleAlpha THEN {8, 16}
  ELSE IF colorType = ctTrueColorAlpha THEN {8, 16}
  ELSE {}

\* cgbi.bitsPerPixel as the switch sets it (left alone for an unknown type)
BitsPerPixel(old, colorType, depth) ==
  IF colorType = ctGrayscale THEN depth
  ELSE IF colorType = ctTrueColor THEN depth * 3
  ELSE IF colorType = ctPaletted THEN depth
  ELSE IF colorType = ctGrayscaleAlpha THEN depth * 2
  ELSE IF colorType = ctTrueColorAlpha THEN depth * 4
  ELSE old

parseIHDR(g, iHDR) ==
  LET tmp == iHDR.Data
      g1 == [g EXCEPT !.width = WordToInt(BigEndianUint32(SubSeq(tmp, 1, 4)))]
      g2 == [g1 EXCEPT !.height = WordToInt(BigEndianUint32(SubSeq(tmp, 5, 8)))]
      g3 == [g2 EXCEPT !.depth = tmp[9], !.colorType = tmp[10],
                       !.bitsPerPixel = BitsPerPixel(g.bitsPerPixel, tmp[10], tmp[9])]
      g4 == [g3 EXCEPT !.CompressionMethod = tmp[11]]
      g5 == [g4 EXCEPT !.FilterMethod = tmp[12]]
      g6 == [g5 EXCEPT !.interlace = tmp[13]]
  IN
  IF WordToInt(iHDR.Length) # iHDRLength
    THEN [err |-> Err("invalid IHDR length"), g |-> g]
  ELSE IF g1.width <= 0 THEN [err |-> Err("invalid width in iHDR"), g |-> g1]
  ELSE IF g2.height <= 0 THEN [err |-> Err("invalid height in iHDR"), g |-> g2]
  ELSE IF g3.depth \notin ValidDepths(g3.colorType)
    THEN [err |-> ErrArg("bit depth, color type", <<g3.depth, g3.colorType>>), g |-> g3]
  ELSE IF tmp[11] # 0 THEN [err |-> Err("invalid compression method"), g |-> g3]
  ELSE IF tmp[12] # 0 THEN [err |-> Err("invalid filter method"), g |-> g4]
  ELSE IF tmp[13] # 0 /\ tmp[13] # 1
    THEN [err |-> Err("invalid interlace method"), g |-> g5]
  ELSE [err |-> NoErr, g |-> g6]

\* a faulty parseIDAT that keeps only the newest IDAT payload
parseIDATReplace(g, IDAT) == [g EXCEPT !.IDAT = zlibHeader \o IDAT.Data]

parseIDAT(g, IDAT) == [g EXCEPT !.IDAT = g.IDAT \o IDAT.Data]

(***************************************************************************)
(* The stage checks of parseChunk.                                         *)
(***************************************************************************)
chunkOrderError == Err("chunk out of order")

IHDRAllowed(stage) == stage = dsStart

\* a faulty IDATAllowed that takes IDAT in every stage
IDATAllowedAlways(stage) == TRUE

IDATAllowed(stage) == stage = dsSeenIHDR \/ stage = dsSeenIDAT

IENDAllowed(stage) == stage = dsSeenIDAT

\* the check after the loop of parseChunk
MissingIEND(stage) ==
  IF stage # dsSeenIEND THEN Err("the file can not found IEND chunk") ELSE NoErr

\* a faulty SeekStart that leaves the cursor where the sequencer left it
SeekNowhere(off) == off

\* cgbi.r.Seek(0, io.SeekStart)
SeekStart(off) == 0

(***************************************************************************)
(* What the inflater may hand to readImagePass.  The inflater is outside   *)
(* the package: its output is an input of the model, a record [data, bad], *)
(* bad saying that the stream ends in an inflater error instead of EOF.    *)
(***************************************************************************)
RECURSIVE Repeat(_, _)
Repeat(x, n) == IF n <= 0 THEN <<>> ELSE <<x>> \o Repeat(x, n - 1)

RECURSIVE PassRowSizes(_, _)
\* the sizes of the rows the passes pass, pass+1, ... read, in order
PassRowSizes(h, pass) ==
  IF pass >= nPasses THEN <<>>
  ELSE LET w == PassWidth(h.width, pass)
           hh == PassHeight(h.height, pass)
       IN (IF w = 0 \/ hh = 0 THEN <<>> ELSE Repeat(RowSize(h.bitsPerPixel, w), hh))
          \o PassRowSizes(h, pass + 1)

\* the sizes of all rows a decode under header h reads, in order
RowSizes(h) ==
  IF h.interlace = itAdam7 THEN PassRowSizes(h, 0)
  ELSE Repeat(RowSize(h.bitsPerPixel, h.width), h.height)

PatternByte(seed, k, i) == (seed + 37 * k + 11 * i) % 256

RECURSIVE StreamFrom(_, _, _, _)
\* rows k, k+1, ...: filter byte fts[k], then the pattern bytes
StreamFrom(sizes, fts, seed, k) ==
  IF k > Len(sizes) THEN <<>>
  ELSE (<<fts[k]>> \o [i \in 1..(sizes[k] - 1) |-> PatternByte(seed, k, i)])
       \o StreamFrom(sizes, fts, seed, k + 1)

StreamOf(sizes, fts, seed) == [data |-> StreamFrom(sizes, fts, seed, 1), bad |-> FALSE]

\* row k takes filter type (k-1) mod 5: None, Sub, Up, Average, Paeth, None, ...
PatternFilters(n) == [k \in 1..n |-> (k - 1) % nFilter]

Seeds == {5, 200}

\* a stream cut one byte short
CutShort(z) == [z EXCEPT !.data = SubSeq(z.data, 1, Len(z.data) - 1)]

\* the outcomes of inflating the IDAT bytes that the parse steps consider
Inflated(h) ==
  LET sizes == RowSizes(h)
      full == StreamOf(sizes, PatternFilters(Len(sizes)), 5)
  IN IF \E k \in 1..Len(sizes) : sizes[k] > MaxRowBytes
       THEN {[data |-> <<>>, bad |-> TRUE], [data |-> <<>>, bad |-> FALSE]}
       ELSE {full, CutShort(full), [data |-> <<>>, bad |-> TRUE],
             StreamOf(sizes, [k \in 1..Len(sizes) |-> nFilter], 5)}

\* the outcomes of the standard decoder png.Decode on a source of n bytes
StdImage == [kind |-> "std", Pix |-> <<>>, Stride |-> 0, W |-> 0, H |-> 0]

StdOutcomes(n) ==
  {[img |-> StdImage, err |-> NoErr, off |-> n],
   [img |-> NilImage, err |-> Err("png: invalid format"), off |-> IF n < 8 THEN n ELSE 8]}

(***************************************************************************)
(* Decode: the signature check and the chunk sequencing loop.              *)
(***************************************************************************)
NewLocals ==
  [stage |-> dsStart, start |-> 0, c |-> ZeroChunk, perr |-> NoErr,
   pstage |-> dsStart, idx |-> 0]

\* a faulty SequencerDone that also stops at an IDAT chunk
SequencerDoneEarly(stage) == stage = dsSeenIEND \/ stage = dsSeenIDAT

\* the negated loop condition of the sequencing loop: stage != dsSeenIEND
SequencerDone(stage) == stage = dsSeenIEND

\* checkHeader, and Decode's handling of its error
CheckHeader ==
  /\ pc = "checkHeader"
  /\ \E r \in {ReadFull(input, cgbi.off, Len(pngHeader))} :
       /\ cgbi' = [cgbi EXCEPT !.off = r.off]
       /\ IF r.err # NoErr
            THEN /\ pc' = "returned"
                 /\ ret' = IF r.err = Err("EOF") THEN Err("unexpected EOF") ELSE r.err
          ELSE IF r.buf # pngHeader
            THEN pc' = "returned" /\ ret' = Err("not a PNG file")
          ELSE pc' = "readChunks" /\ ret' = ret
  /\ loc' = [loc EXCEPT !.stage = dsStart]
  /\ UNCHANGED <<input, rd, ext>>

\* one turn of the loop `for stage != dsSeenIEND`
ReadChunk ==
  /\ pc = "readChunks"
  /\ \E p \in {Populate(input, cgbi.off)} :
       /\ cgbi' = [cgbi EXCEPT
                     !.off = p.off,
                     !.chunks = IF p.err = NoErr /\ p.c.CType # <<>>
                                  THEN Append(@, p.c) ELSE @]
       /\ loc' = [loc EXCEPT !.start = cgbi.off, !.c = p.c, !.perr = p.err,
                             !.stage = IF p.err = NoErr THEN p.c.CType ELSE @]
       /\ IF p.err # NoErr THEN pc' = "returned" /\ ret' = p.err
          ELSE IF SequencerDone(p.c.CType) THEN pc' = "parseChunk" /\ ret' = ret
          ELSE pc' = "readChunks" /\ ret' = ret
  /\ UNCHANGED <<input, rd, ext>>

(***************************************************************************)
(* parseChunk.                                                             *)
(***************************************************************************)
\* parseChunk up to its loop; a list that does not start with CgBI goes to
\* the standard decoder
ParseChunkBegin ==
  /\ pc = "parseChunk"
  /\ IF Len(cgbi.chunks) = 0
       THEN /\ pc' = "returned" /\ ret' = Err("not got any chunk")
            /\ UNCHANGED <<cgbi, loc, ext>>
     ELSE IF cgbi.chunks[1].CType # dsSeenCgBI
       THEN \E out \in StdOutcomes(Len(input)) :
              /\ ext' = Append(ext, [fn |-> "png.Decode", off |-> SeekStart(cgbi.off),
                                     in |-> <<>>, img |-> out.img, err |-> out.err])
              /\ cgbi' = [cgbi EXCEPT !.IsCgBI = FALSE, !.chunks = <<>>,
                                      !.off = out.off, !.Img = out.img]
              /\ pc' = "returned" /\ ret' = out.err
              /\ UNCHANGED loc
     ELSE /\ loc' = [loc EXCEPT !.pstage = dsStart, !.idx = 1]
          /\ IF 1 < Len(cgbi.chunks) THEN pc' = "parseLoop" /\ ret' = ret
             ELSE pc' = "returned" /\ ret' = MissingIEND(dsStart)
          /\ UNCHANGED <<cgbi, ext>>
  /\ UNCHANGED <<input, rd>>

\* the body of the loop for one chunk under inflater outcome z:
\* [err, g, stage, r], r the locals of decode when it ran
ParseOne(g, stage, chunk, z) ==
  IF chunk.CType = dsSeenIHDR
    THEN IF ~IHDRAllowed(stage)
           THEN [err |-> chunkOrderError, g |-> g, stage |-> stage, r |-> NewReader(z)]
           ELSE [err |-> parseIHDR(g, chunk).err, g |-> parseIHDR(g, chunk).g,
                 stage |-> dsSeenIHDR, r |-> NewReader(z)]
  ELSE IF chunk.CType = dsSeenIDAT
    THEN IF ~IDATAllowed(stage)
           THEN [err |-> chunkOrderError, g |-> g, stage |-> stage, r |-> NewReader(z)]
           ELSE [err |-> NoErr, g |-> parseIDAT(g, chunk), stage |-> dsSeenIDAT,
                 r |-> NewReader(z)]
  ELSE IF chunk.CType = dsSeenIEND
    THEN IF ~IENDAllowed(stage)
           THEN [err |-> chunkOrderError, g |-> g, stage |-> stage, r |-> NewReader(z)]
           ELSE LET r == RunDecode(g, NewReader(z))
                IN [err |-> r.err,
                    g |-> [g EXCEPT !.Img = IF r.at = "done" THEN r.img ELSE NilImage],
                    stage |-> dsSeenIEND, r |-> r]
  ELSE [err |-> NoErr, g |-> g, stage |-> stage, r |-> NewReader(z)]

NoStream == [data |-> <<>>, bad |-> FALSE]

\* one turn of the loop of parseChunk, and the check after its last turn
ParseChunkStep ==
  /\ pc = "parseLoop"
  /\ loc.idx < Len(cgbi.chunks)
  /\ LET chunk == cgbi.chunks[loc.idx + 1]
         decodes == chunk.CType = dsSeenIEND /\ IENDAllowed(loc.pstage)
     IN \E z \in (IF decodes THEN Inflated(cgbi) ELSE {NoStream}) :
          \E p \in {ParseOne(cgbi, loc.pstage, chunk, z)} :
            /\ cgbi' = p.g
            /\ rd' = IF decodes THEN p.r ELSE rd
            /\ ext' = IF decodes
                        THEN Append(ext, [fn |-> "zlib.NewReader", off |-> 0,
                                          in |-> cgbi.IDAT, img |-> NilImage,
                                          err |-> ZlibHeaderErr(cgbi.IDAT)])
                        ELSE ext
            /\ IF p.r.at = "panic"
                 THEN pc' = "panic" /\ ret' = ret /\ loc' = [loc EXCEPT !.pstage = p.stage]
               ELSE IF p.err # NoErr
                 THEN /\ pc' = "returned" /\ ret' = p.err
                      /\ loc' = [loc EXCEPT !.pstage = p.stage]
               ELSE /\ loc' = [loc EXCEPT !.pstage = p.stage, !.idx = loc.idx + 1]
                    /\ IF loc.idx + 1 < Len(cgbi.chunks)
                         THEN pc' = "parseLoop" /\ ret' = ret
                         ELSE pc' = "returned" /\ ret' = MissingIEND(p.stage)
  /\ UNCHANGED input

(***************************************************************************)
(* decode and readImagePass as steps of their own (pc = "decode").         *)
(***************************************************************************)
DecodeStart ==
  /\ pc = "decode" /\ rd.at = "decode"
  /\ rd' = StepDecode(cgbi, rd)
  /\ ext' = Append(ext, [fn |-> "zlib.NewReader", off |-> 0, in |-> cgbi.IDAT,
                          img |-> NilImage, err |-> ZlibHeaderErr(cgbi.IDAT)])
  /\ UNCHANGED <<input, cgbi, pc, loc, ret>>

ReadPassBegin ==
  /\ pc = "decode" /\ rd.at = "pass"
  /\ rd' = StepPass(cgbi, rd)
  /\ UNCHANGED <<input, cgbi, pc, loc, ret, ext>>

ReadRow ==
  /\ pc = "decode" /\ rd.at = "row"
  /\ rd' = StepRow(cgbi, rd)
  /\ UNCHANGED <<input, cgbi, pc, loc, ret, ext>>

PassEnd ==
  /\ pc = "decode" /\ rd.at = "passEnd"
  /\ rd' = StepPassEnd(cgbi, rd)
  /\ UNCHANGED <<input, cgbi, pc, loc, ret, ext>>

\* cgbi.Img, err = cgbi.decode(), and the return of parseChunk after it
DecodeReturn ==
  /\ pc = "decode" /\ rd.at \in {"done", "error", "panic"}
  /\ IF rd.at = "panic" THEN pc' = "panic" /\ UNCHANGED <<cgbi, ret, loc>>
     ELSE /\ pc' = "returned"
          /\ cgbi' = [cgbi EXCEPT !.Img = IF rd.at = "done" THEN rd.img ELSE NilImage]
          /\ ret' = rd.err
          /\ loc' = [loc EXCEPT !.pstage = dsSeenIEND]
  /\ UNCHANGED <<input, rd, ext>>

(***************************************************************************)
(* Inputs.                                                                 *)
(***************************************************************************)
\* binary.BigEndian.PutUint32, for n below 2^31
PutUint32(n) == <<n \div 16777216, (n \div 65536) % 256, (n \div 256) % 256, n % 256>>

WordBytes(w) == <<w[1] \div 256, w[1] % 256, w[2] \div 256, w[2] % 256>>

\* the chunk Populate makes of a well-formed frame
MakeChunk(t, d) ==
  [Length |-> <<0, Len(d)>>, CType |-> t, Data |-> d, Crc32 |-> ChunkChecksum(t, d)]

\* the bytes of a chunk in a file
EncodeChunk(c) == WordBytes(c.Length) \o c.CType \o c.Data \o WordBytes(c.Crc32)

RECURSIVE EncodeChunks(_, _)
EncodeChunks(cs, i) ==
  IF i > Len(cs) THEN <<>> ELSE EncodeChunk(cs[i]) \o EncodeChunks(cs, i + 1)

\* s with the low bit of its byte i flipped
FlipBit(s, i) == [s EXCEPT ![i] = IF @ % 2 = 0 THEN @ + 1 ELSE @ - 1]

\* a frame with one bit in error: in the payload when there is one, else in
\* the declared CRC
Corrupt(c) ==
  IF Len(c.Data) > 0 THEN FlipBit(EncodeChunk(c), 9)
  ELSE FlipBit(EncodeChunk(c), 12)

SeqPayloads == {[i \in 1..n |-> 90 + i] : n \in 0..MaxData}

SeqChunks ==
  {MakeChunk(t, d) : t \in {dsSeenCgBI, dsSeenIDAT, dsSeenIEND}, d \in SeqPayloads}

SeqLists(n) == UNION {[1..k -> SeqChunks] : k \in 0..n}

\* pngHeader, the frames of cs (the last one corrupted when bad), and the
\* last cut bytes dropped
SeqInput(cs, bad, cut) ==
  LET n == Len(cs)
      body == IF n = 0 THEN <<>>
              ELSE EncodeChunks(SubSeq(cs, 1, n - 1), 1)
                   \o (IF bad THEN Corrupt(cs[n]) ELSE EncodeChunk(cs[n]))
      all == pngHeader \o body
  IN SubSeq(all, 1, IF cut > Len(all) THEN 0 ELSE Len(all) - cut)

BadSignatures == {<<>>, SubSeq(pngHeader, 1, 7), FlipBit(pngHeader, 8) \o <<0, 0, 0, 0>>}

InitSeq ==
  /\ \/ \E cs \in SeqLists(MaxFrames), bad \in BOOLEAN, cut \in 0..(12 + MaxData) :
          /\ bad => Len(cs) > 0
          /\ input = SeqInput(cs, bad, cut)
     \/ input \in BadSignatures
  /\ cgbi = NewIpaPNG
  /\ pc = "checkHeader"
  /\ loc = NewLocals
  /\ rd = NewReader(NoStream)
  /\ ret = NoErr
  /\ ext = <<>>

NextSeq == CheckHeader \/ ReadChunk \/ ParseChunkBegin \/ ParseChunkStep

\* Decode on byte-level inputs
SpecSeq == InitSeq /\ [][NextSeq]_vars

\* Decode runs on: a call that can take a step takes it
FairSeq == SpecSeq /\ WF_vars(NextSeq)

(***************************************************************************)
(* parseChunk on the chunk lists the sequencer can leave: every chunk as   *)
(* Populate makes it, IEND last and only last.                             *)
(***************************************************************************)
IHDRData(w, h, depth, colorType, compression, filter, interlace) ==
  PutUint32(w) \o PutUint32(h) \o <<depth, colorType, compression, filter, interlace>>

IENDChunk == MakeChunk(dsSeenIEND, <<>>)

CgBIChunk == MakeChunk(dsSeenCgBI, <<80, 0, 32, 2>>)

ParseIHDRs ==
  {IHDRData(1, 1, 8, ctTrueColorAlpha, 0, 0, itNone),
   IHDRData(2, 2, 8, ctTrueColorAlpha, 0, 0, itAdam7),
   SubSeq(IHDRData(1, 1, 8, ctTrueColorAlpha, 0, 0, itNone), 1, 12)}

ParseChunks ==
  {CgBIChunk, MakeChunk(tEXt, <<>>), MakeChunk(dsSeenIDAT, <<1>>),
   MakeChunk(dsSeenIDAT, <<2, 3>>)}
  \cup {MakeChunk(dsSeenIHDR, d) : d \in ParseIHDRs}

\* the state in which Decode calls parseChunk, the sequencer having read cs
AtParseChunk(cs) ==
  \E enc \in {pngHeader \o EncodeChunks(cs, 1)} :
    /\ input = enc
    /\ cgbi = [NewIpaPNG EXCEPT !.chunks = cs, !.off = Len(enc)]
    /\ pc = "parseChunk"
    /\ loc = [NewLocals EXCEPT !.stage = dsSeenIEND, !.c = cs[Len(cs)],
                               !.start = Len(enc) - Len(EncodeChunk(cs[Len(cs)]))]
    /\ rd = NewReader(NoStream)
    /\ ret = NoErr
    /\ ext = <<>>

InitParse ==
  \E k \in 0..(MaxChunks - 1) : \E l \in [1..k -> ParseChunks] :
    AtParseChunk(Append(l, IENDChunk))

NextParse == ParseChunkBegin \/ ParseChunkStep

SpecParse == InitParse /\ [][NextParse]_vars

(***************************************************************************)
(* parseChunk on CgBI, IHDR, IDAT, IEND for a range of IHDR payloads.      *)
(***************************************************************************)
IHDRWidths == {0, 1, 258}

IHDRHeights == {0, 1, 2}

IHDRDepths == {1, 2, 3, 4, 8, 16}

IHDRColorTypes == 0..6

IHDRMethods == {0, 1}

IHDRInterlaces == {0, 1, 2}

\* a 13-byte payload, the same cut to 12 bytes, the same with a byte added
IHDRLengths(d) == {d, SubSeq(d, 1, 12), d \o <<0>>}

InitIHDR ==
  \E w \in IHDRWidths, h \in IHDRHeights, depth \in IHDRDepths, ct \in IHDRColorTypes,
     cm \in IHDRMethods, fm \in IHDRMethods, il \in IHDRInterlaces :
    \E d \in IHDRLengths(IHDRData(w, h, depth, ct, cm, fm, il)) :
      \E cs \in {<<CgBIChunk, MakeChunk(dsSeenIHDR, d), MakeChunk(dsSeenIDAT, <<1>>),
                    IENDChunk>>} :
        AtParseChunk(cs)

SpecIHDR == InitIHDR /\ [][NextParse]_vars

(***************************************************************************)
(* decode step by step, from the state in which the IEND chunk of          *)
(* CgBI, IHDR, IDAT, IEND calls it.                                        *)
(***************************************************************************)
ColorTypes == {ctGrayscale, ctTrueColor, ctPaletted, ctGrayscaleAlpha, ctTrueColorAlpha}

FilterBytes == 0..nFilter

\* the state in which parseChunk calls decode for header bytes d, the
\* inflater giving z
AtDecode(d, z) ==
  \E cs \in {<<CgBIChunk, MakeChunk(dsSeenIHDR, d), MakeChunk(dsSeenIDAT, <<1>>),
                IENDChunk>>} :
    \E enc \in {pngHeader \o EncodeChunks(cs, 1)} :
      /\ input = enc
      /\ cgbi = parseIDAT([parseIHDR(NewIpaPNG, cs[2]).g EXCEPT !.chunks = cs,
                                                               !.off = Len(enc)],
                          cs[3])
      /\ pc = "decode"
      /\ loc = [NewLocals EXCEPT !.stage = dsSeenIEND, !.c = IENDChunk,
                                 !.start = Len(enc) - 12, !.pstage = dsSeenIDAT, !.idx = 3]
      /\ rd = NewReader(z)
      /\ ret = NoErr
      /\ ext = <<>>

\* the header fields parseIHDR leaves for payload d (its checksum plays no part)
HeaderOf(d) ==
  parseIHDR(NewIpaPNG, [Length |-> <<0, Len(d)>>, CType |-> dsSeenIHDR, Data |-> d,
                        Crc32 |-> <<0, 0>>]).g

InitPass ==
  \/ \E w \in 1..MaxSide, h \in 1..MaxSide, ct \in ColorTypes :
       \E depth \in ValidDepths(ct), seed \in Seeds :
         \E fts \in [1..h -> FilterBytes], short \in BOOLEAN :
           \E d \in {IHDRData(w, h, depth, ct, 0, 0, itNone)} :
             \E z \in {StreamOf(RowSizes(HeaderOf(d)), fts, seed)} :
               AtDecode(d, IF short THEN CutShort(z) ELSE z)
  \/ \E w \in 1..MaxSide, h \in 1..MaxSide, ct \in ColorTypes :
       \E depth \in ValidDepths(ct) :
         \E d \in {IHDRData(w, h, depth, ct, 0, 0, itAdam7)} :
           \E sizes \in {RowSizes(HeaderOf(d))} :
             AtDecode(d, StreamOf(sizes, PatternFilters(Len(sizes)), 5))
  \/ \E w \in 1..MaxDim, h \in 1..MaxDim :
       \E d \in {IHDRData(w, h, 8, ctTrueColorAlpha, 0, 0, itAdam7)} :
         \E sizes \in {RowSizes(HeaderOf(d))} :
           AtDecode(d, StreamOf(sizes, PatternFilters(Len(sizes)), 5))

NextPass == DecodeStart \/ ReadPassBegin \/ ReadRow \/ PassEnd \/ DecodeReturn

SpecPass == InitPass /\ [][NextPass]_vars

(***************************************************************************)
(* Properties.                                                             *)
(***************************************************************************)

\* C1: parseChunk enters its loop only for a list whose first chunk is CgBI,
\* at index 1 and in stage Start; the stage is always one of Start, SeenIHDR,
\* SeenIDAT, SeenIEND; IHDR is taken only in Start and moves to SeenIHDR;
\* IDAT is taken only in SeenIHDR or SeenIDAT and moves to SeenIDAT; IEND is
\* taken only in SeenIDAT and moves to SeenIEND; a chunk of another type is
\* taken in every stage and leaves the stage and the decoder as they are;
\* IHDR, IDAT or IEND in another stage returns the chunk-order error.
C1_StageMachine ==
  [][/\ (pc = "parseChunk" /\ pc' = "parseLoop") =>
          (cgbi.chunks[1].CType = dsSeenCgBI /\ loc'.idx = 1 /\ loc'.pstage = dsStart)
     /\ (pc = "parseLoop") =>
          LET t == cgbi.chunks[loc.idx + 1].CType
              s == loc.pstage
              taken(to) == /\ ret' # chunkOrderError
                           /\ loc'.pstage = to
                           /\ pc' = "parseLoop" => loc'.idx = loc.idx + 1
              refused == pc' = "returned" /\ ret' = chunkOrderError /\ cgbi' = cgbi
          IN /\ s \in {dsStart, dsSeenIHDR, dsSeenIDAT, dsSeenIEND}
             /\ (t = dsSeenIHDR) =>
                  IF s = dsStart THEN taken(dsSeenIHDR) ELSE refused
             /\ (t = dsSeenIDAT) =>
                  IF s \in {dsSeenIHDR, dsSeenIDAT} THEN taken(dsSeenIDAT) ELSE refused
             /\ (t = dsSeenIEND) =>
                  IF s = dsSeenIDAT THEN taken(dsSeenIEND) ELSE refused
             /\ (t \notin {dsSeenIHDR, dsSeenIDAT, dsSeenIEND}) =>
                  (taken(s) /\ cgbi' = cgbi /\ pc' # "panic")
    ]_vars

\* an IEND chunk directly after IHDR has been refused
C1_Witness ==
  /\ pc = "returned" /\ ret = chunkOrderError
  /\ loc.pstage = dsSeenIHDR
  /\ cgbi.chunks[loc.idx + 1].CType = dsSeenIEND

\* the header and the stream of a non-interlaced 8-bit truecolor+alpha
\* image, complete and with filter type 0 on every scanline
C2_Case ==
  /\ cgbi.interlace = itNone /\ cgbi.depth = 8 /\ cgbi.colorType = ctTrueColorAlpha
  /\ cgbi.width > 0 /\ cgbi.height > 0
  /\ ~rd.zr.bad
  /\ Len(rd.zr.data) = cgbi.height * (1 + 4 * cgbi.width)
  /\ \A y \in 0..(cgbi.height - 1) : rd.zr.data[y * (1 + 4 * cgbi.width) + 1] = 0

\* C2: decode of a non-interlaced 8-bit truecolor+alpha image whose
\* scanlines all have filter type 0 returns without error an image of the
\* width and height of IHDR, in which the bytes R, G, B, A of pixel (x, y) are
\* the stream bytes 2, 1, 0, 3 of that pixel.
C2_SwapAndSize ==
  (C2_Case /\ pc \in {"returned", "panic"}) =>
     /\ pc = "returned" /\ ret = NoErr
     /\ cgbi.Img.W = cgbi.width /\ cgbi.Img.H = cgbi.height
     /\ Len(cgbi.Img.Pix) = 4 * cgbi.width * cgbi.height
     /\ \A x \in 0..(cgbi.width - 1), y \in 0..(cgbi.height - 1) :
          LET o == 4 * (y * cgbi.width + x)
              z == y * (1 + 4 * cgbi.width) + 1 + 4 * x
          IN /\ cgbi.Img.Pix[o + 1] = rd.zr.data[z + 3]
             /\ cgbi.Img.Pix[o + 2] = rd.zr.data[z + 2]
             /\ cgbi.Img.Pix[o + 3] = rd.zr.data[z + 1]
             /\ cgbi.Img.Pix[o + 4] = rd.zr.data[z + 4]

\* a 2 x 2 image of that kind has been decoded
C2_Witness ==
  C2_Case /\ pc = "returned" /\ cgbi.width = 2 /\ cgbi.height = 2

RECURSIVE ShiftOut(_, _)
\* CRC-32 bit by bit: k times, shift right and take off the polynomial
\* 0xedb88320 when a one falls out
ShiftOut(crc, k) ==
  IF k = 0 THEN crc
  ELSE IF crc[2] % 2 = 1 THEN ShiftOut(XorWord[Shr1(crc), <<60856, 33568>>], k - 1)
  ELSE ShiftOut(Shr1(crc), k - 1)

RECURSIVE Crc32Of(_, _)
\* crcs: the register at the start and after each byte of p taken so far
Crc32Of(crcs, p) ==
  IF Len(crcs) > Len(p) THEN XorWord[crcs[Len(crcs)], <<65535, 65535>>]
  ELSE Crc32Of(Append(crcs, ShiftOut(XorWord[crcs[Len(crcs)], <<0, p[Len(crcs)]>>], 8)), p)

\* C3: a call of Populate with the cursor at the start of a chunk succeeds
\* exactly when the source holds from there 4 length bytes, 4 type bytes,
\* `length` data bytes and 4 CRC bytes and the CRC bytes are the CRC-32 of
\* type and data; then the chunk holds these four fields and the cursor is
\* 12 + length further; when a field is short the error is the read error
\* (EOF or unexpected EOF), and when the CRCs differ it is the checksum error
\* naming the type.
C3_Populate ==
  [][(pc = "readChunks") =>
       LET at == cgbi.off
           rest == Len(input) - at
           length == IF rest >= 4
                       THEN ((input[at + 1] * 256 + input[at + 2]) * 256 + input[at + 3]) * 256
                            + input[at + 4]
                       ELSE 0
           whole == rest >= 4 /\ rest >= 12 + length
           ctype == SubSeq(input, at + 5, at + 8)
           data == SubSeq(input, at + 9, at + 8 + length)
           crc == SubSeq(input, at + 9 + length, at + 12 + length)
           sum == Crc32Of(<< <<65535, 65535>> >>, ctype \o data)
           match == crc = <<sum[1] \div 256, sum[1] % 256, sum[2] \div 256, sum[2] % 256>>
       IN /\ (loc'.perr = NoErr) <=> (whole /\ match)
          /\ (loc'.perr = NoErr) =>
               /\ loc'.c = [Length |-> <<0, length>>, CType |-> ctype, Data |-> data,
                            Crc32 |-> sum]
               /\ cgbi'.off = at + 12 + length
               /\ pc' # "returned"
          /\ (~whole) => /\ loc'.perr \in {Err("EOF"), Err("unexpected EOF")}
                         /\ pc' = "returned" /\ ret' = loc'.perr
          /\ (whole /\ ~match) =>
               /\ loc'.perr = ErrArg("invalid checksum CType", ctype)
               /\ pc' = "returned" /\ ret' = loc'.perr
    ]_vars

\* a frame with a flipped payload bit has been refused with the checksum error
C3_Witness ==
  /\ pc = "returned" /\ ret = ErrArg("invalid checksum CType", dsSeenIDAT)
  /\ Len(loc.c.Data) = 1
  /\ cgbi.off = loc.start + 13

\* the type of the first chunk of the input
FirstType == SubSeq(input, 13, 16)

\* the header fields and the IDAT buffer are as Decode made them
HeaderUntouched ==
  /\ cgbi.width = NewIpaPNG.width /\ cgbi.height = NewIpaPNG.height
  /\ cgbi.depth = NewIpaPNG.depth /\ cgbi.bitsPerPixel = NewIpaPNG.bitsPerPixel
  /\ cgbi.interlace = NewIpaPNG.interlace /\ cgbi.colorType = NewIpaPNG.colorType
  /\ cgbi.CompressionMethod = NewIpaPNG.CompressionMethod
  /\ cgbi.FilterMethod = NewIpaPNG.FilterMethod
  /\ cgbi.IDAT = NewIpaPNG.IDAT

\* C4: once parseChunk has acted on a list whose first chunk is not CgBI, it
\* has made one outside call, png.Decode with the cursor of the source at 0;
\* it has returned with the image and the error of that call; the loop of the
\* CgBI path, the inflater and the pass reader never ran; and the header
\* fields and the IDAT buffer are as Decode made them.
C4_StandardPath ==
  (pc # "parseChunk" /\ FirstType # dsSeenCgBI) =>
     /\ Len(ext) = 1 /\ ext[1].fn = "png.Decode" /\ ext[1].off = 0
     /\ pc = "returned"
     /\ cgbi.Img = ext[1].img /\ ret = ext[1].err
     /\ HeaderUntouched
     /\ rd = NewReader(NoStream)
     /\ loc.idx = 0 /\ loc.pstage = dsStart

\* the standard decoder has given an image for a list that starts with IDAT
C4_Witness ==
  /\ pc = "returned" /\ FirstType = dsSeenIDAT
  /\ Len(ext) = 1 /\ ext[1].fn = "png.Decode" /\ ext[1].err = NoErr
  /\ cgbi.Img = StdImage

\* the pairs <<color type, bit depth>> of the PNG table
C5_Table ==
  {<<0, 1>>, <<0, 2>>, <<0, 4>>, <<0, 8>>, <<0, 16>>, <<2, 8>>, <<2, 16>>,
   <<3, 1>>, <<3, 2>>, <<3, 4>>, <<3, 8>>, <<4, 8>>, <<4, 16>>, <<6, 8>>, <<6, 16>>}

\* the samples per pixel of the color types 0, 2, 3, 4, 6
C5_Channels(colorType) ==
  CASE colorType = 0 -> 1 [] colorType = 2 -> 3 [] colorType = 3 -> 1
    [] colorType = 4 -> 2 [] colorType = 6 -> 4

\* C5: parseIHDR gives no error exactly when the declared length is 13,
\* width and height are above 0, <<color type, depth>> is in the table,
\* compression and filter method are 0 and the interlace method is 0 or 1;
\* and then bitsPerPixel is the depth times 1, 3, 1, 2, 4 for the color types
\* 0, 2, 3, 4, 6.
C5_ParseIHDR ==
  [][(pc = "parseLoop" /\ cgbi.chunks[loc.idx + 1].CType = dsSeenIHDR
        /\ loc.pstage = dsStart) =>
       LET c == cgbi.chunks[loc.idx + 1]
           d == c.Data
           num(i) == ((d[i] * 256 + d[i + 1]) * 256 + d[i + 2]) * 256 + d[i + 3]
           valid == /\ c.Length = <<0, 13>>
                    /\ num(1) > 0 /\ num(5) > 0
                    /\ <<d[10], d[9]>> \in C5_Table
                    /\ d[11] = 0 /\ d[12] = 0
                    /\ d[13] \in {0, 1}
           ok == pc' = "parseLoop" /\ ret' = NoErr
       IN /\ ok <=> valid
          /\ (~ok) => (pc' = "returned" /\ ret' # NoErr)
          /\ ok => (cgbi'.bitsPerPixel = d[9] * C5_Channels(d[10]))
    ]_vars

\* a 258 x 2 truecolor header of depth 16 has been accepted, with 48 bits per pixel
C5_Witness ==
  /\ pc = "parseLoop" /\ loc.pstage = dsSeenIHDR
  /\ cgbi.width = 258 /\ cgbi.height = 2
  /\ cgbi.colorType = 2 /\ cgbi.depth = 16 /\ cgbi.bitsPerPixel = 48

\* the writes of the merges of a finished decode: <<k, n>> is write n of merge k
C6_Writes ==
  UNION {{<<k, n>> : n \in 1..Len(rd.writes[k].ds)} : k \in 1..Len(rd.writes)}

\* C6: after an interlaced decode, each pass of a size above 0 has been
\* merged once; a merge of pass p writes as many pixels as the pass-local
\* size says (ceiling division by xFactor / yFactor after the offsets are
\* taken off); pixel (x, y) of the pass goes to the position (x * xFactor +
\* xOffset, y * yFactor + yOffset), which is inside the width x height grid;
\* and every position of the grid is written by exactly one pixel of exactly
\* one pass.
C6_Adam7Partition ==
  (pc = "returned" /\ ret = NoErr /\ cgbi.interlace = itAdam7) =>
     LET w == cgbi.width
         h == cgbi.height
         bpp == IF cgbi.depth = 16 THEN 8 ELSE 4
         pw(p) == (w - p.xOffset + p.xFactor - 1) \div p.xFactor
         ph(p) == (h - p.yOffset + p.yFactor - 1) \div p.yFactor
         X(k, n) == LET p == interlacing[rd.writes[k].pass + 1]
                    IN ((n - 1) % pw(p)) * p.xFactor + p.xOffset
         Y(k, n) == LET p == interlacing[rd.writes[k].pass + 1]
                    IN ((n - 1) \div pw(p)) * p.yFactor + p.yOffset
     IN /\ \A q \in 0..6 :
             LET ks == {k \in 1..Len(rd.writes) : rd.writes[k].pass = q}
             IN /\ Cardinality(ks) = IF pw(interlacing[q + 1]) * ph(interlacing[q + 1]) > 0
                                       THEN 1 ELSE 0
                /\ \A k \in ks :
                     Len(rd.writes[k].ds) = pw(interlacing[q + 1]) * ph(interlacing[q + 1])
        /\ \A kn \in C6_Writes :
             /\ X(kn[1], kn[2]) < w /\ Y(kn[1], kn[2]) < h
             /\ rd.writes[kn[1]].ds[kn[2]] = (Y(kn[1], kn[2]) * w + X(kn[1], kn[2])) * bpp
        /\ \A x \in 0..(w - 1), y \in 0..(h - 1) :
             Cardinality({kn \in C6_Writes : X(kn[1], kn[2]) = x /\ Y(kn[1], kn[2]) = y}) = 1

\* a 9 x 9 image has been put together from seven passes
C6_Witness ==
  /\ pc = "returned" /\ ret = NoErr /\ cgbi.interlace = itAdam7
  /\ cgbi.width = 9 /\ cgbi.height = 9
  /\ Len(rd.writes) = 7

\* C7: once the signature is read, the sequencing loop ends; it ends either
\* with the error of a failed chunk read, which Decode returns with no outside
\* call made and no header field or IDAT byte set, or at a chunk of type IEND
\* with the list holding the chunks of the stream read so far in their order,
\* IEND last and no IEND before; and while the loop goes on, the chunk just
\* read is not IEND.
C7_Sequencer ==
  /\ (pc = "readChunks") ~> (pc # "readChunks")
  /\ [][(pc = "readChunks") =>
          \/ /\ pc' = "returned"
             /\ loc'.perr # NoErr /\ ret' = loc'.perr
             /\ ext' = <<>> /\ HeaderUntouched' /\ cgbi'.Img = NilImage
          \/ /\ pc' = "parseChunk"
             /\ loc'.perr = NoErr
             /\ Len(cgbi'.chunks) > 0
             /\ cgbi'.chunks[Len(cgbi'.chunks)].CType = dsSeenIEND
             /\ \A i \in 1..(Len(cgbi'.chunks) - 1) : cgbi'.chunks[i].CType # dsSeenIEND
             /\ EncodeChunks(cgbi'.chunks, 1) = SubSeq(input, 9, cgbi'.off)
          \/ /\ pc' = "readChunks"
             /\ loc'.perr = NoErr
             /\ cgbi'.chunks = Append(cgbi.chunks, loc'.c)
             /\ loc'.c.CType # dsSeenIEND
       ]_vars

\* the loop has stopped at IEND, the third chunk of the input
C7_Witness ==
  /\ pc = "parseChunk" /\ Len(cgbi.chunks) = 3
  /\ cgbi.chunks[3].CType = dsSeenIEND

\* C8: when a row is about to be read, the buffer of the previous scanline
\* holds zeros for row 0 and, for a row y >= 1, the bytes of row y-1 as its
\* filter reversal left them, in the channel order of the stream.
C8_PreviousRow ==
  (pc = "decode" /\ rd.at = "row") =>
     IF rd.y = 0 THEN \A i \in 2..Len(rd.pr) : rd.pr[i] = 0
     ELSE SubSeqFrom(rd.pr, 2) = rd.recon

RECURSIVE IDATData(_, _)
\* the data of the IDAT chunks among cs[i], cs[i+1], ..., one after the other
IDATData(cs, i) ==
  IF i > Len(cs) THEN <<>>
  ELSE (IF cs[i].CType = dsSeenIDAT THEN cs[i].Data ELSE <<>>) \o IDATData(cs, i + 1)

\* C9 as stated: the bytes handed to the inflater are the data of the IDAT
\* chunks of the list, one after the other, and no other bytes.
C9_OnlyIDATBytes ==
  \A i \in 1..Len(ext) :
    (ext[i].fn = "zlib.NewReader") => (ext[i].in = IDATData(cgbi.chunks, 1))

\* C9 amended: the bytes handed to the inflater are the two bytes 120, 156
\* followed by the data of the IDAT chunks of the list, one after the other.
C9_HeaderThenIDATBytes ==
  \A i \in 1..Len(ext) :
    (ext[i].fn = "zlib.NewReader") =>
       (ext[i].in = <<120, 156>> \o IDATData(cgbi.chunks, 1) /\ Len(ext) = 1)

\* the inflater has been given 120, 156 and the bytes of two IDAT chunks
C9_Witness ==
  /\ Len(ext) = 1 /\ ext[1].fn = "zlib.NewReader"
  /\ ext[1].in = <<120, 156, 2, 3, 1>>

\* C10: under an accepted header, a turn of the row loop never ends in an
\* index out of range.
C10_UnpackInRange ==
  [][(pc = "decode" /\ rd.at = "row") => (rd'.at # "panic")]_vars
====
